---- MODULE Spec2Model ----
(***************************************************************************)
(* Model of the aws-lambda-rest-iam-api request handlers.                  *)
(*                                                                         *)
(*   - extractRoleInfo / extractCallerInfo (main.go): the caller-identity  *)
(*     heuristic over the request headers and AWS_EXECUTION_ROLE_ARN.      *)
(*   - handleRoot / handleHealth / handleData behind http.ServeMux         *)
(*     (main.go) and the API Gateway proxy-event handler.                  *)
(*                                                                         *)
(* Go strings are TLA+ strings; Header.Get of an absent header is "".      *)
(* A Go slice expression out of range panics: every slice the code takes   *)
(* is paired with its bounds check (SliceOK) and a failed check sets the   *)
(* panic flag of the result.                                               *)
(***************************************************************************)
EXTENDS Integers, Sequences, FiniteSets, TLC

VARIABLES
    env,        \* the value of AWS_EXECUTION_ROLE_ARN ("" when unset)
    request,    \* the request: method, path, headers, body
    roleInfo,   \* the result of extractRoleInfo on the request
    caller,     \* the CallerInfo built by extractCallerInfo for the request
    httpResp,   \* the response written by the net/http handlers of main.go
    proxyResp,  \* the response returned by the proxy-event handler
    pc,         \* the steps taken so far
    encodeErr,  \* whether JSON encoding of the response fails (err != nil)
    conns       \* the requests served concurrently, each with its own locals

vars == <<env, request, roleInfo, caller, httpResp, proxyResp, pc, encodeErr, conns>>

----------------------------------------------------------------------------
(* Bounds *)

\* at most this many headers are present (non-empty) in a request
MaxHeaders == 3

\* the number of requests served concurrently
MaxRequests == 2

----------------------------------------------------------------------------
(* package strings *)

min(a, b) == IF a < b THEN a ELSE b

\* s[lo:hi] is legal in Go iff 0 <= lo <= hi <= len(s)
SliceOK(s, lo, hi) == 0 <= lo /\ lo <= hi /\ hi <= Len(s)

\* s[lo:hi] (0-based, hi exclusive); the caller records the panic of an
\* illegal slice, whose value is never used
Slice(s, lo, hi) == IF SliceOK(s, lo, hi) THEN SubSeq(s, lo + 1, hi) ELSE ""

HasPrefix(s, p) == Len(s) >= Len(p) /\ SubSeq(s, 1, Len(p)) = p

\* the least offset of a set of offsets, -1 when there is none
First(offsets) ==
    IF offsets = {} THEN -1 ELSE CHOOSE i \in offsets : \A j \in offsets : i <= j

\* strings.Index: 0-based offset of the first occurrence of sub, or -1
Index(s, sub) ==
    First({i \in 0..(Len(s) - Len(sub)) : SubSeq(s, i + 1, i + Len(sub)) = sub})

Contains(s, sub) ==
    \E i \in 0..(Len(s) - Len(sub)) : SubSeq(s, i + 1, i + Len(sub)) = sub

\* strings.IndexAny: offset of the first character of s that occurs in chars
IndexAny(s, chars) ==
    First({i \in 0..(Len(s) - 1) :
              \E k \in 1..Len(chars) : SubSeq(s, i + 1, i + 1) = SubSeq(chars, k, k)})

\* strings.Split(s, sep) for a one-character sep: a sequence of strings;
\* SplitAt is Split given the offset i of the first separator
RECURSIVE Split(_, _), SplitAt(_, _, _)
Split(s, sep) == SplitAt(s, sep, Index(s, sep))

SplitAt(s, sep, i) ==
    IF i = -1 THEN <<s>>
    ELSE <<SubSeq(s, 1, i)>> \o Split(SubSeq(s, i + 2, Len(s)), sep)

----------------------------------------------------------------------------
(* Requests *)

RoleHeaders ==
    << "Authorization",
       "X-Amz-User-Agent",
       "X-Amzn-RequestContext-Identity-Arn",
       "X-Amzn-RequestContext-Identity-UserArn",
       "X-Amzn-RequestContext-Identity-User",
       "X-Amzn-RequestContext-Identity-PrincipalId" >>

\* the headers the code reads (Header.Get canonicalises "X-API-Key")
HeaderNames ==
    {RoleHeaders[i] : i \in 1..Len(RoleHeaders)} \cup
    {"Host", "X-Api-Key", "X-Amz-Security-Token",
     "X-Request-Id", "X-Amzn-Trace-Id", "X-Stage"}

\* http.Header.Get: the value of the header, "" when it is absent
Get(headers, name) == headers[name]

NoHeaders == [h \in HeaderNames |-> ""]

----------------------------------------------------------------------------
(* Caller-identity inference: main.go                                      *)
(*                                                                         *)
(* A value the code computes once and then uses several times is passed    *)
(* on as the parameter of the operator that models the code that follows.  *)

RestrictedRole == "aws-lambda-rest-iam-api-api-b-restricted-role"

\* parts[i] with Go's 0-based index
At(parts, i) == parts[i + 1]

\* the (roleName, sessionName) pair a function returns, panic set when a
\* slice or index expression on the way was out of range
RoleResult(roleName, sessionName, p) ==
    [roleName |-> roleName, sessionName |-> sessionName, panic |-> p]

\* the outcome of examining one candidate header: hit = the function returns here
HeaderResult(h, roleName, sessionName, p) ==
    [hit |-> h, roleName |-> roleName, sessionName |-> sessionName, panic |-> p]

Miss == HeaderResult(FALSE, "", "", FALSE)

\* for i, part := range parts { if part == "assumed-role" && i+1 < len(parts) ...}:
\* the first such i (0-based), -1 when the loop ends without returning
AssumedRoleAt(parts) ==
    First({i \in 0..(Len(parts) - 1) :
              At(parts, i) = "assumed-role" /\ i + 1 < Len(parts)})

\* roleName = remaining[:endIdx], or all of remaining; return
RoleUpTo(remaining, endIdx) ==
    HeaderResult(TRUE,
                 IF endIdx # -1 THEN Slice(remaining, 0, endIdx) ELSE remaining,
                 "",
                 endIdx # -1 /\ ~SliceOK(remaining, 0, endIdx))

\* "Look for role name patterns": idx is strings.Index(value, "role/"), which
\* is -1 exactly when strings.Contains(value, "role/") fails
RolePattern(value, idx) ==
    IF idx = -1 THEN Miss
    ELSE IF ~SliceOK(value, idx + 5, Len(value)) THEN HeaderResult(TRUE, "", "", TRUE)
    ELSE RoleUpTo(Slice(value, idx + 5, Len(value)),
                  IndexAny(Slice(value, idx + 5, Len(value)), "/,; "))

\* "Look for assumed-role patterns": parts is strings.Split(value, "/") and
\* ar the index at which the loop over the parts returns
AssumedRolePattern(value, parts, ar) ==
    IF Contains(value, "assumed-role") /\ ar # -1
    THEN HeaderResult(TRUE, At(parts, ar + 1),
                      IF ar + 2 < Len(parts) THEN At(parts, ar + 2) ELSE "",
                      FALSE)
    ELSE RolePattern(value, Index(value, "role/"))

Patterns(value, parts) == AssumedRolePattern(value, parts, AssumedRoleAt(parts))

\* CheckHeader without the test on the length of the value
CheckHeader_NoLength(value) ==
    IF value = "" THEN Miss
    ELSE IF ~SliceOK(value, 0, min(Len(value), 100)) THEN HeaderResult(TRUE, "", "", TRUE)
    ELSE Patterns(value, Split(value, "/"))

\* the body of the loop over the candidate headers, for one header value
CheckHeader(value) ==
    IF ~(value # "" /\ Len(value) > 10) THEN Miss
    ELSE IF ~SliceOK(value, 0, min(Len(value), 100)) THEN HeaderResult(TRUE, "", "", TRUE)
    ELSE Patterns(value, Split(value, "/"))

\* for _, header := range headers, from the i-th candidate on; ScanFrom is
\* the loop given the outcome r of the i-th candidate
RECURSIVE ScanHeaders(_, _), ScanFrom(_, _, _)
ScanHeaders(headers, i) ==
    IF i > Len(RoleHeaders) THEN Miss
    ELSE ScanFrom(headers, i, CheckHeader(Get(headers, RoleHeaders[i])))

\* ScanFrom that goes on after a match, so that the last match is returned
ScanFrom_LastWins(headers, i, r) ==
    IF ScanHeaders(headers, i + 1).hit THEN ScanHeaders(headers, i + 1) ELSE r

ScanFrom(headers, i, r) == IF r.hit THEN r ELSE ScanHeaders(headers, i + 1)

\* TokenRole with the length guard against the wrong threshold
TokenRole_ShortGuard(securityToken) ==
    IF Len(securityToken) > 10
    THEN RoleResult("STS-AssumedRole", "session-" \o Slice(securityToken, 50, 60),
                    ~SliceOK(securityToken, 50, 60))
    ELSE RoleResult("STS-AssumedRole", "", FALSE)

\* the role and session taken from a security token that starts with "IQoJ"
TokenRole(securityToken) ==
    IF Len(securityToken) > 100
    THEN RoleResult("STS-AssumedRole", "session-" \o Slice(securityToken, 50, 60),
                    ~SliceOK(securityToken, 50, 60))
    ELSE RoleResult("STS-AssumedRole", "", FALSE)

\* RoleFromToken without the test on the prefix of the token
RoleFromToken_AnyPrefix(securityToken) ==
    IF securityToken # "" THEN TokenRole(securityToken) ELSE RoleResult("", "", FALSE)

\* "Check if this looks like an STS temporary credential"
RoleFromToken(securityToken) ==
    IF securityToken # "" /\ HasPrefix(securityToken, "IQoJ")
    THEN TokenRole(securityToken)
    ELSE RoleResult("", "", FALSE)

\* after the loop over the candidate headers, whose outcome is scan
RoleFromHeaders(headers, scan) ==
    IF scan.hit THEN RoleResult(scan.roleName, scan.sessionName, scan.panic)
    ELSE RoleFromToken(Get(headers, "X-Amz-Security-Token"))

\* RoleFromEnv with the environment consulted after the candidate headers
RoleFromEnv_HeadersFirst(headers, awsRoleArn, parts) ==
    IF ScanHeaders(headers, 1).hit
    THEN RoleFromHeaders(headers, ScanHeaders(headers, 1))
    ELSE IF awsRoleArn # "" /\ Contains(awsRoleArn, "role/") /\ Len(parts) > 1
    THEN RoleResult(At(parts, Len(parts) - 1), "", FALSE)
    ELSE RoleFromToken(Get(headers, "X-Amz-Security-Token"))

\* the environment branch; parts is strings.Split(awsRoleArn, "/")
RoleFromEnv(headers, awsRoleArn, parts) ==
    IF awsRoleArn # "" /\ Contains(awsRoleArn, "role/") /\ Len(parts) > 1
    THEN RoleResult(At(parts, Len(parts) - 1), "", FALSE)
    ELSE RoleFromHeaders(headers, ScanHeaders(headers, 1))

extractRoleInfo(headers, awsRoleArn) ==
    RoleFromEnv(headers, awsRoleArn, Split(awsRoleArn, "/"))

\* caller.PrincipalID: the request id, else the trace id
PrincipalID(headers) ==
    IF Get(headers, "X-Request-Id") # ""
    THEN "Request: " \o Get(headers, "X-Request-Id")
    ELSE IF Get(headers, "X-Amzn-Trace-Id") # ""
    THEN "Trace: " \o Get(headers, "X-Amzn-Trace-Id")
    ELSE ""

\* caller.AccountID: the stage label
AccountID(headers) ==
    IF Get(headers, "X-Stage") # "" THEN "Stage: " \o Get(headers, "X-Stage") ELSE ""

\* GatewayLabel without the test that Host is present
GatewayLabel_NoHostCheck(host, apiKey) ==
    IF Contains(host, "7pxbysogui") THEN "API A (Open Access)"
    ELSE IF Contains(host, "cqst45pam7") THEN "API B (Restricted Access)"
    ELSE IF Contains(host, "vo9f4c6gj4") THEN "API C (IAM + API Key)"
    ELSE IF apiKey # "" THEN "API C (IAM + API Key)"
    ELSE "API Gateway: " \o host

\* GatewayLabel with the API key consulted before the Host fragments
GatewayLabel_KeyFirst(host, apiKey) ==
    IF host = "" THEN ""
    ELSE IF apiKey # "" THEN "API C (IAM + API Key)"
    ELSE IF Contains(host, "7pxbysogui") THEN "API A (Open Access)"
    ELSE IF Contains(host, "cqst45pam7") THEN "API B (Restricted Access)"
    ELSE IF Contains(host, "vo9f4c6gj4") THEN "API C (IAM + API Key)"
    ELSE "API Gateway: " \o host

\* caller.UserARN after the Host block; host and apiKey are the values of the
\* Host and X-API-Key headers
GatewayLabel(host, apiKey) ==
    IF host = "" THEN ""
    ELSE IF Contains(host, "7pxbysogui") THEN "API A (Open Access)"
    ELSE IF Contains(host, "cqst45pam7") THEN "API B (Restricted Access)"
    ELSE IF Contains(host, "vo9f4c6gj4") THEN "API C (IAM + API Key)"
    ELSE IF apiKey # "" THEN "API C (IAM + API Key)"
    ELSE "API Gateway: " \o host

\* RestrictedOverride as a fallback: only when no role name was parsed
RestrictedOverride_Fallback(c) ==
    IF Contains(c.UserARN, "API B") /\ c.RoleName = ""
    THEN [c EXCEPT !.RoleName = RestrictedRole,
                   !.UserID   = "Role: " \o RestrictedRole]
    ELSE c

\* RestrictedOverride that overwrites the role name only
RestrictedOverride_RoleOnly(c) ==
    IF Contains(c.UserARN, "API B") THEN [c EXCEPT !.RoleName = RestrictedRole] ELSE c

\* the overwrite of RoleName and UserID inside the security-token branch
RestrictedOverride(c) ==
    IF Contains(c.UserARN, "API B")
    THEN [c EXCEPT !.RoleName = RestrictedRole,
                   !.UserID   = "Role: " \o RestrictedRole]
    ELSE c

\* TokenUserID with a preview of 30 characters
TokenUserID_Long(securityToken) ==
    "Token: " \o Slice(securityToken, 0, min(Len(securityToken), 30)) \o "..."

\* caller.UserID of a request with a security token and no role name
TokenUserID(securityToken) ==
    "Token: " \o Slice(securityToken, 0, min(Len(securityToken), 20)) \o "..."

\* AuthUserID without the truncation
AuthUserID_Full(authHeader) == "Auth: " \o authHeader \o "..."

\* caller.UserID of a request with an Authorization header and no security token
AuthUserID(authHeader) ==
    "Auth: " \o Slice(authHeader, 0, min(Len(authHeader), 20)) \o "..."

\* the security-token branch, ri being the result of extractRoleInfo
WithToken(c, securityToken, ri) ==
    RestrictedOverride(
        [c EXCEPT !.RoleName    = ri.roleName,
                  !.UserID      = IF ri.roleName # "" THEN "Role: " \o ri.roleName
                                                      ELSE TokenUserID(securityToken),
                  !.SessionName = ri.sessionName,
                  !.panic       = ri.panic
                                    \/ ~SliceOK(securityToken, 0,
                                                min(Len(securityToken), 20))])

\* Identify with the unauthenticated fallback after, not inside, the branches
Identify_FallbackAlways(headers, awsRoleArn, c, securityToken, authHeader) ==
    IF c.UserARN = "" THEN [c EXCEPT !.UserARN = "Unauthenticated Request"]
    ELSE IF securityToken # ""
    THEN WithToken(c, securityToken, extractRoleInfo(headers, awsRoleArn))
    ELSE IF authHeader # ""
    THEN [c EXCEPT !.UserID = AuthUserID(authHeader),
                   !.panic  = ~SliceOK(authHeader, 0, min(Len(authHeader), 20))]
    ELSE c

\* the branches on the security token and the Authorization header, c being
\* the descriptor built so far
Identify(headers, awsRoleArn, c, securityToken, authHeader) ==
    IF securityToken # ""
    THEN WithToken(c, securityToken, extractRoleInfo(headers, awsRoleArn))
    ELSE IF authHeader # ""
    THEN [c EXCEPT !.UserID = AuthUserID(authHeader),
                   !.panic  = ~SliceOK(authHeader, 0, min(Len(authHeader), 20))]
    ELSE IF c.UserARN = ""
    THEN [c EXCEPT !.UserARN = "Unauthenticated Request"]
    ELSE c

extractCallerInfo(headers, awsRoleArn) ==
    Identify(headers, awsRoleArn,
             [UserARN     |-> GatewayLabel(Get(headers, "Host"), Get(headers, "X-Api-Key")),
              UserID      |-> "",
              AccountID   |-> AccountID(headers),
              PrincipalID |-> PrincipalID(headers),
              RoleName    |-> "",
              SessionName |-> "",
              panic       |-> FALSE],
             Get(headers, "X-Amz-Security-Token"),
             Get(headers, "Authorization"))

----------------------------------------------------------------------------
(* package encoding/json                                                   *)
(*                                                                         *)
(* A JSON text is a sequence of tokens (lexing is not modelled); BAD is    *)
(* any text that is not a JSON token.  A number literal is a non-negative  *)
(* integer written in binary, most significant bit first.                  *)

Tok(t, v) == [t |-> t, v |-> v]
LBRACE == Tok("{", "")
RBRACE == Tok("}", "")
LBRACK == Tok("[", "")
RBRACK == Tok("]", "")
COLON  == Tok(":", "")
COMMA  == Tok(",", "")
NULL   == Tok("null", "")
TRUE_  == Tok("true", "")
BAD    == Tok("bad", "")
Str(s) == Tok("str", s)
Num(b) == Tok("num", b)

\* a JSON value: every kind has the same record shape
JV(kind, str, keys, items) == [kind |-> kind, str |-> str, keys |-> keys, items |-> items]
JNull      == JV("null", "", <<>>, <<>>)
JTrue      == JV("true", "", <<>>, <<>>)
JStr(s)    == JV("str", s, <<>>, <<>>)
JNum(b)    == JV("num", b, <<>>, <<>>)
JArr(vs)   == JV("array", "", <<>>, vs)
JObj(ks, vs) == JV("object", "", ks, vs)

ParseResult(ok, val, next) == [ok |-> ok, val |-> val, next |-> next]
ParseFail == ParseResult(FALSE, JNull, 0)

\* the scanner: the value that starts at token i, and the index after it
RECURSIVE ParseValue(_, _), ParseElements(_, _, _), ElementsAfter(_, _, _),
          ParseMembers(_, _, _, _), MembersAfter(_, _, _, _)
ParseValue(toks, i) ==
    IF i > Len(toks) THEN ParseFail
    ELSE LET t == toks[i].t
         IN  IF t = "null" THEN ParseResult(TRUE, JNull, i + 1)
             ELSE IF t = "true" THEN ParseResult(TRUE, JTrue, i + 1)
             ELSE IF t = "str" THEN ParseResult(TRUE, JStr(toks[i].v), i + 1)
             ELSE IF t = "num" THEN ParseResult(TRUE, JNum(toks[i].v), i + 1)
             ELSE IF t = "["
             THEN IF i + 1 <= Len(toks) /\ toks[i + 1].t = "]"
                  THEN ParseResult(TRUE, JArr(<<>>), i + 2)
                  ELSE ParseElements(toks, i + 1, <<>>)
             ELSE IF t = "{"
             THEN IF i + 1 <= Len(toks) /\ toks[i + 1].t = "}"
                  THEN ParseResult(TRUE, JObj(<<>>, <<>>), i + 2)
                  ELSE ParseMembers(toks, i + 1, <<>>, <<>>)
             ELSE ParseFail

\* the elements of an array from token i on, acc being those scanned so far;
\* ElementsAfter continues after the element r
ParseElements(toks, i, acc) == ElementsAfter(toks, acc, ParseValue(toks, i))

ElementsAfter(toks, acc, r) ==
    IF ~r.ok \/ r.next > Len(toks) THEN ParseFail
    ELSE IF toks[r.next].t = ","
    THEN ParseElements(toks, r.next + 1, Append(acc, r.val))
    ELSE IF toks[r.next].t = "]"
    THEN ParseResult(TRUE, JArr(Append(acc, r.val)), r.next + 1)
    ELSE ParseFail

\* the members of an object from token i on, ks and vs being the keys and
\* values scanned so far; MembersAfter continues after the member value r
ParseMembers(toks, i, ks, vs) ==
    IF i + 1 > Len(toks) \/ toks[i].t # "str" \/ toks[i + 1].t # ":" THEN ParseFail
    ELSE MembersAfter(toks, Append(ks, toks[i].v), vs, ParseValue(toks, i + 2))

MembersAfter(toks, ks, vs, r) ==
    IF ~r.ok \/ r.next > Len(toks) THEN ParseFail
    ELSE IF toks[r.next].t = ","
    THEN ParseMembers(toks, r.next + 1, ks, Append(vs, r.val))
    ELSE IF toks[r.next].t = "}"
    THEN ParseResult(TRUE, JObj(ks, Append(vs, r.val)), r.next + 1)
    ELSE ParseFail

\* the scan r of a text found one value and nothing after it
Complete(toks, r) == r.ok /\ r.next = Len(toks) + 1

\* json.Valid: the whole text is exactly one JSON value
Valid(toks) == Complete(toks, ParseValue(toks, 1))

\* byte order of the object keys the requests use (Marshal sorts map keys)
KeyOrder == <<"a", "b", "count", "items", "message">>
Rank(k) == CHOOSE i \in 1..Len(KeyOrder) : KeyOrder[i] = k

\* b + 1 on a binary numeral
RECURSIVE Inc(_)
Inc(b) ==
    IF b = "" THEN "1"
    ELSE IF SubSeq(b, Len(b), Len(b)) = "0"
    THEN SubSeq(b, 1, Len(b) - 1) \o "1"
    ELSE Inc(SubSeq(b, 1, Len(b) - 1)) \o "0"

RECURSIVE Zeros(_)
Zeros(n) == IF n <= 0 THEN "" ELSE "0" \o Zeros(n - 1)

\* strconv.ParseFloat(literal, 64) of an integer literal: the nearest float64,
\* 53 significant bits, ties to even
Float64(b) ==
    IF Len(b) <= 53 THEN b
    ELSE LET keep == SubSeq(b, 1, 53)
             rest == SubSeq(b, 54, Len(b))
             half == "1" \o Zeros(Len(rest) - 1)
             up   == SubSeq(rest, 1, 1) = "1"
                       /\ (rest # half \/ SubSeq(keep, 53, 53) = "1")
         IN  (IF up THEN Inc(keep) ELSE keep) \o Zeros(Len(rest))

\* the members of an object as a map: the last of equal keys wins, keys in
\* byte order
Sorted(present) ==
    [j \in 1..Cardinality(present) |->
        CHOOSE k \in present : Cardinality({x \in present : Rank(x) < Rank(k)}) = j - 1]

MapKeys(ks) == Sorted({ks[i] : i \in 1..Len(ks)})

LastIndex(ks, k) == CHOOSE i \in 1..Len(ks) : ks[i] = k /\ \A j \in (i + 1)..Len(ks) : ks[j] # k

\* the Go value a JSON value is stored as in an interface{}: numbers become
\* float64 when lossy (Unmarshal), or keep their exact value when not (the
\* value the text denotes); objects become maps
RECURSIVE Store(_, _), StoreMembers(_, _, _)
Store(v, lossy) ==
    IF v.kind = "num" THEN JNum(IF lossy THEN Float64(v.str) ELSE v.str)
    ELSE IF v.kind = "array"
    THEN JArr([i \in 1..Len(v.items) |-> Store(v.items[i], lossy)])
    ELSE IF v.kind = "object" THEN StoreMembers(v, MapKeys(v.keys), lossy)
    ELSE v

StoreMembers(v, mk, lossy) ==
    JObj(mk, [j \in 1..Len(mk) |-> Store(v.items[LastIndex(v.keys, mk[j])], lossy)])

\* the value a JSON text denotes
ValueOf(toks) == Store(ParseValue(toks, 1).val, FALSE)

\* json.Marshal of a value held in an interface{}
RECURSIVE Marshal(_), MarshalItems(_, _), MarshalMembers(_, _)
Marshal(v) ==
    IF v.kind = "null" THEN <<NULL>>
    ELSE IF v.kind = "true" THEN <<TRUE_>>
    ELSE IF v.kind = "str" THEN <<Str(v.str)>>
    ELSE IF v.kind = "num" THEN <<Num(v.str)>>
    ELSE IF v.kind = "array" THEN <<LBRACK>> \o MarshalItems(v, 1) \o <<RBRACK>>
    ELSE <<LBRACE>> \o MarshalMembers(v, 1) \o <<RBRACE>>

MarshalItems(v, i) ==
    IF i > Len(v.items) THEN <<>>
    ELSE (IF i > 1 THEN <<COMMA>> ELSE <<>>) \o Marshal(v.items[i]) \o MarshalItems(v, i + 1)

MarshalMembers(v, i) ==
    IF i > Len(v.items) THEN <<>>
    ELSE (IF i > 1 THEN <<COMMA>> ELSE <<>>) \o <<Str(v.keys[i]), COLON>>
         \o Marshal(v.items[i]) \o MarshalMembers(v, i + 1)

\* the outcome of decoding a text into a map[string]interface{}
DecodeResult(err, isNil, val) == [err |-> err, isNil |-> isNil, val |-> val]

\* StoreMap that takes an object without members for an error
StoreMap_RejectEmpty(v) ==
    IF v.kind = "object" /\ Len(v.keys) > 0 THEN DecodeResult(FALSE, FALSE, Store(v, TRUE))
    ELSE IF v.kind = "null" THEN DecodeResult(FALSE, TRUE, JNull)
    ELSE DecodeResult(TRUE, TRUE, JNull)

\* storing a scanned value into the map: an object fills it, null leaves it
\* nil, any other value is an UnmarshalTypeError
StoreMap(v) ==
    IF v.kind = "object" THEN DecodeResult(FALSE, FALSE, Store(v, TRUE))
    ELSE IF v.kind = "null" THEN DecodeResult(FALSE, TRUE, JNull)
    ELSE DecodeResult(TRUE, TRUE, JNull)

\* json.Unmarshal([]byte(body), &requestData): the whole text must be valid
UnmarshalScanned(toks, r) ==
    IF ~Complete(toks, r) THEN DecodeResult(TRUE, TRUE, JNull) ELSE StoreMap(r.val)

Unmarshal(toks) == UnmarshalScanned(toks, ParseValue(toks, 1))

\* json.NewDecoder(body).Decode(&requestData): reads the first value of the
\* stream.  An object or array ends at its closing bracket and what follows is
\* left unread; a literal must be followed by the end of the input
DecodeScanned(toks, r) ==
    IF ~r.ok THEN DecodeResult(TRUE, TRUE, JNull)
    ELSE IF r.val.kind \notin {"object", "array"} /\ r.next # Len(toks) + 1
    THEN DecodeResult(TRUE, TRUE, JNull)
    ELSE StoreMap(r.val)

DecoderDecode(toks) == DecodeScanned(toks, ParseValue(toks, 1))

----------------------------------------------------------------------------
(* Response envelopes and their serialisation *)

Member(k, toks, omit) == [k |-> k, toks |-> toks, omit |-> omit]

RECURSIVE JoinMembers(_, _)
JoinMembers(ms, i) ==
    IF i > Len(ms) THEN <<>>
    ELSE (IF i > 1 THEN <<COMMA>> ELSE <<>>) \o <<Str(ms[i].k), COLON>> \o ms[i].toks
         \o JoinMembers(ms, i + 1)

\* json.Marshal of a struct: the fields in declaration order, without those
\* that omitempty drops
MarshalStruct(ms) ==
    <<LBRACE>> \o JoinMembers(SelectSeq(ms, LAMBDA m : ~m.omit), 1) \o <<RBRACE>>

\* type CallerInfo: every field is a string with omitempty
MarshalCaller(c) ==
    MarshalStruct(<< Member("user_arn",     <<Str(c.UserARN)>>,     c.UserARN = ""),
                     Member("user_id",      <<Str(c.UserID)>>,      c.UserID = ""),
                     Member("account_id",   <<Str(c.AccountID)>>,   c.AccountID = ""),
                     Member("principal_id", <<Str(c.PrincipalID)>>, c.PrincipalID = ""),
                     Member("role_name",    <<Str(c.RoleName)>>,    c.RoleName = ""),
                     Member("session_name", <<Str(c.SessionName)>>, c.SessionName = "") >>)

\* a Data field: unset (a nil interface, which omitempty drops) or a value
NoData      == [set |-> FALSE, val |-> JNull]
SomeData(v) == [set |-> TRUE, val |-> v]

\* a Caller field: main.go always sets the pointer, the proxy-event handler's
\* structs have no such field
NoCallerField   == [set |-> FALSE, toks |-> <<>>]
CallerField(c)  == [set |-> TRUE, toks |-> MarshalCaller(c)]

\* DataResponse whose data field has no omitempty and writes nothing for a
\* nil interface
DataResponse_NoOmit(message, data, method, path, callerField) ==
    MarshalStruct(<< Member("message", <<Str(message)>>, FALSE),
                     Member("data",    IF data.set THEN Marshal(data.val) ELSE <<>>, FALSE),
                     Member("method",  <<Str(method)>>, FALSE),
                     Member("path",    <<Str(path)>>, FALSE),
                     Member("caller",  callerField.toks, ~callerField.set) >>)

\* type DataResponse
DataResponse(message, data, method, path, callerField) ==
    MarshalStruct(<< Member("message", <<Str(message)>>, FALSE),
                     Member("data",    Marshal(data.val), ~data.set),
                     Member("method",  <<Str(method)>>, FALSE),
                     Member("path",    <<Str(path)>>, FALSE),
                     Member("caller",  callerField.toks, ~callerField.set) >>)

\* type HealthResponse
HealthResponse(status, timestamp, message, callerField) ==
    MarshalStruct(<< Member("status",    <<Str(status)>>, FALSE),
                     Member("timestamp", <<Str(timestamp)>>, FALSE),
                     Member("message",   <<Str(message)>>, FALSE),
                     Member("caller",    callerField.toks, ~callerField.set) >>)

\* SampleData with the count left behind after an item was added to the list
SampleData_StaleCount ==
    JObj(<<"count", "items">>,
         <<JNum("10"), JArr(<<JStr("item1"), JStr("item2"), JStr("item3")>>)>>)

\* the fixed sample data of GET /data: {"count": 3, "items": [...]} (a map,
\* whose keys Marshal sorts)
SampleData ==
    JObj(<<"count", "items">>,
         <<JNum("11"), JArr(<<JStr("item1"), JStr("item2"), JStr("item3")>>)>>)

\* what a handler hands to the transport: status 0 means no response yet
Response(status, headers, body) == [status |-> status, headers |-> headers, body |-> body]
NoResponse == Response(0, <<>>, <<>>)

\* the connection of a request whose handler panicked is aborted without a
\* response
Aborted == Response(-1, <<>>, <<>>)

JSONHeaders == << <<"Content-Type", "application/json">> >>

\* the text http.Error writes: a plain line, not JSON
ErrorText == <<Tok("bad", "Internal server error\n")>>

\* w.Header().Set, w.WriteHeader(statusCode), Encode(data).  Encode marshals
\* the value and then writes it, so a failure leaves nothing of it in the body.
\* http.Error comes after WriteHeader: its Content-Type and its WriteHeader(500)
\* are ignored by a ResponseWriter whose header is already written, its text
\* is appended to the body
writeJSONResponse(data, statusCode, err) ==
    IF err THEN Response(statusCode, JSONHeaders, ErrorText)
    ELSE Response(statusCode, JSONHeaders, data)

\* the member k of the JSON object a text holds (JNull and FALSE when absent)
MemberAt(v, hits) ==
    IF hits = {} THEN [present |-> FALSE, val |-> JNull]
    ELSE [present |-> TRUE, val |-> v.items[CHOOSE i \in hits : \A j \in hits : j <= i]]

Lookup(r, k) ==
    IF r.ok /\ r.val.kind = "object"
    THEN MemberAt(r.val, {i \in 1..Len(r.val.keys) : r.val.keys[i] = k})
    ELSE [present |-> FALSE, val |-> JNull]

Field(toks, k) == Lookup(ParseValue(toks, 1), k)

----------------------------------------------------------------------------
(* main.go: the handlers behind http.ServeMux *)

\* mux.HandleFunc("/", ...), ("/health", ...), ("/data", ...): a pattern that
\* does not end in "/" matches that path only, "/" matches every other path
ServeMux(path) ==
    IF path = "/health" THEN "handleHealth"
    ELSE IF path = "/data" THEN "handleData"
    ELSE "handleRoot"

handleRoot(r, c, err) ==
    writeJSONResponse(
        DataResponse("Welcome to AWS Lambda REST API with IAM Authentication",
                     NoData, r.method, r.path, CallerField(c)),
        200, err)

handleHealth(r, c, now, err) ==
    writeJSONResponse(
        HealthResponse("healthy", now, "API is running successfully", CallerField(c)),
        200, err)

\* case http.MethodPost, d being the outcome of decoding the body
PostData(r, c, d, err) ==
    IF d.err
    THEN writeJSONResponse(
             DataResponse("Invalid JSON in request body", NoData,
                          r.method, r.path, CallerField(c)),
             400, err)
    ELSE writeJSONResponse(
             DataResponse("Data received successfully", SomeData(d.val),
                          r.method, r.path, CallerField(c)),
             201, err)

\* handleData without the default case of the switch: every method but GET
\* is taken for a POST
handleData_NoDefault(r, c, err) ==
    IF r.method = "GET"
    THEN writeJSONResponse(
             DataResponse("Data retrieved successfully", SomeData(SampleData),
                          r.method, r.path, CallerField(c)),
             200, err)
    ELSE PostData(r, c, DecoderDecode(r.body), err)

handleData(r, c, err) ==
    IF r.method = "GET"
    THEN writeJSONResponse(
             DataResponse("Data retrieved successfully", SomeData(SampleData),
                          r.method, r.path, CallerField(c)),
             200, err)
    ELSE IF r.method = "POST" THEN PostData(r, c, DecoderDecode(r.body), err)
    ELSE writeJSONResponse(
             DataResponse("Method " \o r.method \o " not allowed", NoData,
                          r.method, r.path, CallerField(c)),
             405, err)

----------------------------------------------------------------------------
(* The API Gateway proxy-event handler *)

ProxyHeaders ==
    << <<"Content-Type", "application/json">>,
       <<"Access-Control-Allow-Origin", "*">>,
       <<"Access-Control-Allow-Methods", "GET,POST,PUT,DELETE,OPTIONS">>,
       <<"Access-Control-Allow-Headers",
         "Content-Type,X-Amz-Date,Authorization,X-Api-Key,X-Amz-Security-Token">> >>

\* the response value and the status code the routing switch sets
Route(response, statusCode) == [response |-> response, statusCode |-> statusCode]

\* case "POST" with a non-empty body, d being the outcome of json.Unmarshal
ProxyPostData(r, d) ==
    IF d.err
    THEN Route(DataResponse("Invalid JSON in request body", NoData,
                            r.method, r.path, NoCallerField),
               400)
    ELSE Route(DataResponse("Data received successfully", SomeData(d.val),
                            r.method, r.path, NoCallerField),
               201)

\* case "/data"
ProxyData(r) ==
    IF r.method = "GET"
    THEN Route(DataResponse("Data retrieved successfully", SomeData(SampleData),
                            r.method, r.path, NoCallerField),
               200)
    ELSE IF r.method = "POST"
    THEN IF r.body # <<>>
         THEN ProxyPostData(r, Unmarshal(r.body))
         ELSE Route(DataResponse("No data provided", NoData, r.method, r.path,
                                 NoCallerField),
                    400)
    ELSE Route(DataResponse("Method " \o r.method \o " not allowed", NoData,
                            r.method, r.path, NoCallerField),
               405)

\* the switch on request.Path
ProxyRoute(r, now) ==
    IF r.path = "/"
    THEN Route(DataResponse("Welcome to AWS Lambda REST API with IAM Authentication",
                            NoData, r.method, r.path, NoCallerField),
               200)
    ELSE IF r.path = "/health"
    THEN Route(HealthResponse("healthy", now, "API is running successfully",
                              NoCallerField),
               200)
    ELSE IF r.path = "/data" THEN ProxyData(r)
    ELSE Route(DataResponse("Endpoint not found", NoData, r.method, r.path,
                            NoCallerField),
               404)

\* the body of the 500 response: `{"message":"Internal server error"}`
InternalError == <<LBRACE, Str("message"), COLON, Str("Internal server error"), RBRACE>>

\* return events.APIGatewayProxyResponse{...}, nil: the two results of the
\* handler, error being the Go error
Return(resp, error) ==
    [status |-> resp.status, headers |-> resp.headers, body |-> resp.body,
     error |-> error]

\* ProxyReturn whose error response carries the content type only
ProxyReturn_PlainError(route, err) ==
    IF err THEN Return(Response(500, JSONHeaders, InternalError), "nil")
    ELSE Return(Response(route.statusCode, ProxyHeaders, route.response), "nil")

\* json.Marshal(response) and the return of the handler, err being whether
\* Marshal failed
ProxyReturn(route, err) ==
    IF err THEN Return(Response(500, ProxyHeaders, InternalError), "nil")
    ELSE Return(Response(route.statusCode, ProxyHeaders, route.response), "nil")

\* handler with the preflight test applied to the routed paths only
handler_KnownPaths(r, now, err) ==
    IF r.method = "OPTIONS" /\ r.path \in {"/", "/health", "/data"}
    THEN Return(Response(200, ProxyHeaders, <<>>), "nil")
    ELSE ProxyReturn(ProxyRoute(r, now), err)

handler(r, now, err) ==
    IF r.method = "OPTIONS"
    THEN Return(Response(200, ProxyHeaders, <<>>), "nil")
    ELSE ProxyReturn(ProxyRoute(r, now), err)

----------------------------------------------------------------------------
(* Inputs *)

Token20    == "IQoJABCDEFGHIJKLMNOP"
Token21    == "IQoJABCDEFGHIJKLMNOPQ"
Token60    == "IQoJABCDEFGHIJKLMNOPQRSTUVWXYZabcdefghijklmnopqrstuvwxyz0123"
Token100   == "IQoJABCDEFGHIJKLMNOPQRSTUVWXYZabcdefghijklmnopqrstuvwxyz0123456789ABCDEFGHIJKLMNOPQRSTUVWXYZabcdefgh"
Token101   == "IQoJABCDEFGHIJKLMNOPQRSTUVWXYZabcdefghijklmnopqrstuvwxyz0123456789ABCDEFGHIJKLMNOPQRSTUVWXYZabcdefghi"
TokenOther == "FwoGABCDEFGHIJKLMNOPQRSTUVWXYZabcdefghijklmnopqrstuvwxyz0123456789ABCDEFGHIJKLMNOPQRSTUVWXYZabcdefghijklmnopqrstuvwxyz01"
Value100   == "vABCDEFGHIJKLMNOPQRSTUVWXYZabcdefghijklmnopqrstuvwxyz0123456789ABCDEFGHIJKLMNOPQRSTUVWXYZabcdefrole/"
Value101   == "vABCDEFGHIJKLMNOPQRSTUVWXYZabcdefghijklmnopqrstuvwxyz0123456789ABCDEFGHIJKLMNOPQRSTUVWXYZabcdefrole/z"

HostA  == "7pxbysogui.execute-api.eu-west-2.amazonaws.com"
HostB  == "cqst45pam7.execute-api.eu-west-2.amazonaws.com"
HostC  == "vo9f4c6gj4.execute-api.eu-west-2.amazonaws.com"
HostAB == "7pxbysogui.cqst45pam7.example.com"
HostBC == "vo9f4c6gj4.cqst45pam7.example.com"

\* Token101 with other characters at offsets 50..59, TokenOther with another
\* character at offset 25
Token101x   == "IQoJABCDEFGHIJKLMNOPQRSTUVWXYZabcdefghijklmnopqrst0000000000456789ABCDEFGHIJKLMNOPQRSTUVWXYZabcdefghi"
TokenOtherx == "FwoGABCDEFGHIJKLMNOPQRSTU#WXYZabcdefghijklmnopqrstuvwxyz0123456789ABCDEFGHIJKLMNOPQRSTUVWXYZabcdefghijklmnopqrstuvwxyz01"

\* the values a header takes when it is present
HeaderValues(name) ==
    IF name = "Host"
    THEN {HostA, HostB, HostC, HostAB, HostBC, "localhost:8080", "API B.internal"}
    ELSE IF name = "X-Amz-Security-Token"
    THEN {"abc", Token20, Token21, Token60, Token100, Token101, TokenOther,
          Token101x, TokenOtherx}
    ELSE IF name = "Authorization"
    THEN {"short",
          "Bearer sometoken1234567890",
          "Bearer sometoken1234 role/hidden",
          "x/assumed-role//bob",
          "arn:aws:sts::123456789012:assumed-role/dev-role/alice",
          "x/assumed-role/ops-role/bob",
          "x/assumed-role/",
          "01234/assumed-role",
          "0123456role/",
          "role/admin",
          "role/admins",
          "arn:aws:iam::123456789012:role/admin-role,extra",
          Value100, Value101}
    ELSE IF name = "X-Amz-User-Agent" THEN {"aws-sdk-go/1.44 role/ua-role;v2"}
    ELSE IF name = "X-Amzn-RequestContext-Identity-Arn"
    THEN {"x/assumed-role/ctx-role/carol", "role/short"}
    ELSE IF name = "X-Amzn-RequestContext-Identity-UserArn"
    THEN {"arn:aws:iam::123456789012:role/user-role"}
    ELSE IF name = "X-Amzn-RequestContext-Identity-User" THEN {"AROAEXAMPLEID:session-1"}
    ELSE IF name = "X-Amzn-RequestContext-Identity-PrincipalId"
    THEN {"id role/pid-role rest"}
    ELSE IF name = "X-Api-Key" THEN {"key-1"}
    ELSE IF name = "X-Request-Id" THEN {"req-1"}
    ELSE IF name = "X-Amzn-Trace-Id" THEN {"Root=1-abc"}
    ELSE {"prod"}

EnvArns ==
    {"", "arn:aws:iam::123456789012:role/exec-role", "arn:aws:iam::123456789012:role/",
     "exec-role"}

Methods == {"GET", "POST", "PUT", "DELETE", "PATCH", "HEAD", "OPTIONS"}

Paths == {"/", "/health", "/data", "/unknown", "/data/", "/health/live"}

Timestamps == {"2024-01-01T00:00:00Z", "2024-06-30T23:59:59Z"}

\* 2^53 + 1, the least integer that is not a float64
Big == "100000000000000000000000000000000000000000000000000001"

ObjA1 == <<LBRACE, Str("a"), COLON, Num("1"), RBRACE>>

Bodies ==
    { <<>>,
      <<BAD>>,
      <<LBRACE, RBRACE>>,
      ObjA1,
      <<LBRACE, Str("message"), COLON, Str("test"), RBRACE>>,
      <<LBRACE, Str("a"), COLON, Num(Big), RBRACE>>,
      <<LBRACE, Str("b"), COLON, Num("10"), COMMA, Str("a"), COLON, NULL, RBRACE>>,
      <<LBRACE, Str("a"), COLON, LBRACK, Num("1"), COMMA, TRUE_, RBRACK, RBRACE>>,
      <<LBRACE, Str("a"), COLON, LBRACE, Str("b"), COLON, Str("x"), RBRACE, RBRACE>>,
      <<LBRACE, Str("a"), COLON, Num("1"), COMMA, Str("a"), COLON, Num("10"), RBRACE>>,
      ObjA1 \o <<BAD>>,
      ObjA1 \o ObjA1,
      <<LBRACE, Str("a"), COLON, Num("1")>>,
      <<LBRACE, Str("a"), Num("1"), RBRACE>>,
      <<LBRACE, Str("a"), COLON, Num("1"), COMMA, RBRACE>>,
      <<LBRACE, BAD, COLON, Num("1"), RBRACE>>,
      <<NULL>>,
      <<NULL, BAD>>,
      <<LBRACK, Num("1"), RBRACK>>,
      <<Num("1")>>,
      <<Str("a")>> }

\* the header sets of the requests sent to the dispatchers
DispatchHeaders ==
    { NoHeaders,
      [NoHeaders EXCEPT !["Host"] = HostB, !["X-Amz-Security-Token"] = Token101],
      [NoHeaders EXCEPT !["Authorization"] = "Bearer sometoken1234567890",
                        !["X-Request-Id"] = "req-1"] }

Request(method, path, headers, body) ==
    [method |-> method, path |-> path, headers |-> headers, body |-> body]

NoCaller ==
    [UserARN |-> "", UserID |-> "", AccountID |-> "", PrincipalID |-> "",
     RoleName |-> "", SessionName |-> "", panic |-> FALSE]

NoRole == RoleResult("", "", FALSE)

\* the number of headers present in a header set
Present(headers) == Cardinality({n \in HeaderNames : headers[n] # ""})

----------------------------------------------------------------------------
(* The dispatchers: one request, handled by the net/http handlers and by   *)
(* the proxy-event handler                                                 *)

Init ==
    /\ env \in {"", "arn:aws:iam::123456789012:role/exec-role"}
    /\ request \in {Request(m, p, h, b) :
                        m \in Methods, p \in Paths, h \in DispatchHeaders, b \in Bodies}
    /\ roleInfo = NoRole
    /\ caller = NoCaller
    /\ httpResp = NoResponse
    /\ proxyResp = NoResponse
    /\ pc = {}
    /\ encodeErr = FALSE
    /\ conns = <<>>

\* the response of a net/http handler that first built the descriptor c: a
\* panic on the way aborts the request
Written(c, resp) == IF c.panic THEN Aborted ELSE resp

HandleRoot ==
    /\ "http" \notin pc
    /\ ServeMux(request.path) = "handleRoot"
    /\ caller' = extractCallerInfo(request.headers, env)
    /\ httpResp' = Written(caller', handleRoot(request, caller', encodeErr))
    /\ pc' = pc \cup {"http"}
    /\ UNCHANGED <<env, request, roleInfo, proxyResp, encodeErr, conns>>

HandleHealth ==
    /\ "http" \notin pc
    /\ ServeMux(request.path) = "handleHealth"
    /\ caller' = extractCallerInfo(request.headers, env)
    /\ \E now \in Timestamps :
          httpResp' = Written(caller', handleHealth(request, caller', now, encodeErr))
    /\ pc' = pc \cup {"http"}
    /\ UNCHANGED <<env, request, roleInfo, proxyResp, encodeErr, conns>>

HandleData ==
    /\ "http" \notin pc
    /\ ServeMux(request.path) = "handleData"
    /\ caller' = extractCallerInfo(request.headers, env)
    /\ httpResp' = Written(caller', handleData(request, caller', encodeErr))
    /\ pc' = pc \cup {"http"}
    /\ UNCHANGED <<env, request, roleInfo, proxyResp, encodeErr, conns>>

\* Handler invoked again for an event it has already answered
Handler_Retry ==
    /\ \E now \in Timestamps : proxyResp' = handler(request, now, encodeErr)
    /\ pc' = pc \cup {"proxy"}
    /\ UNCHANGED <<env, request, roleInfo, caller, httpResp, encodeErr, conns>>

Handler ==
    /\ "proxy" \notin pc
    /\ \E now \in Timestamps : proxyResp' = handler(request, now, encodeErr)
    /\ pc' = pc \cup {"proxy"}
    /\ UNCHANGED <<env, request, roleInfo, caller, httpResp, encodeErr, conns>>

Next == HandleRoot \/ HandleHealth \/ HandleData \/ Handler

Spec == Init /\ [][Next]_vars

\* the dispatchers with a fault in the encoder: json.Marshal, or Encode on
\* the ResponseWriter, returns an error for the response of the request
InitFault ==
    /\ env = ""
    /\ request \in {Request(m, p, h, b) :
                        m \in Methods, p \in Paths, h \in DispatchHeaders, b \in Bodies}
    /\ roleInfo = NoRole
    /\ caller = NoCaller
    /\ httpResp = NoResponse
    /\ proxyResp = NoResponse
    /\ pc = {}
    /\ encodeErr \in BOOLEAN
    /\ conns = <<>>

SpecFault == InitFault /\ [][Next]_vars

\* the transport calls the handler of every request it has received, and a
\* handler call, which has no loop and waits for nothing, runs to its end
InitLive ==
    /\ env = ""
    /\ request \in {Request(m, p, h, b) :
                        m \in Methods, p \in Paths,
                        h \in {NoHeaders,
                               [NoHeaders EXCEPT !["Host"] = HostB,
                                                 !["X-Amz-Security-Token"] = Token101]},
                        b \in {<<>>, <<BAD>>, ObjA1}}
    /\ roleInfo = NoRole
    /\ caller = NoCaller
    /\ httpResp = NoResponse
    /\ proxyResp = NoResponse
    /\ pc = {}
    /\ encodeErr \in BOOLEAN
    /\ conns = <<>>

SpecLive ==
    /\ InitLive
    /\ [][Next]_vars
    /\ WF_vars(HandleRoot \/ HandleHealth \/ HandleData)
    /\ WF_vars(Handler)

----------------------------------------------------------------------------
(* The inferencer alone: a request whose headers arrive one by one, then   *)
(* extractRoleInfo and extractCallerInfo applied to it                     *)

InitCaller ==
    /\ env \in EnvArns
    /\ request = Request("GET", "/", NoHeaders, <<>>)
    /\ roleInfo = NoRole
    /\ caller = NoCaller
    /\ httpResp = NoResponse
    /\ proxyResp = NoResponse
    /\ pc = {}
    /\ encodeErr = FALSE
    /\ conns = <<>>

\* the client or the gateway adds a header to the request
SetHeader ==
    /\ pc = {}
    /\ Present(request.headers) < MaxHeaders
    /\ \E n \in HeaderNames :
          /\ request.headers[n] = ""
          /\ \E v \in HeaderValues(n) :
                request' = [request EXCEPT !.headers[n] = v]
    /\ UNCHANGED <<env, roleInfo, caller, httpResp, proxyResp, pc, encodeErr, conns>>

ExtractRoleInfo ==
    /\ "role" \notin pc
    /\ roleInfo' = extractRoleInfo(request.headers, env)
    /\ pc' = pc \cup {"role"}
    /\ UNCHANGED <<env, request, caller, httpResp, proxyResp, encodeErr, conns>>

ExtractCallerInfo ==
    /\ "caller" \notin pc
    /\ caller' = extractCallerInfo(request.headers, env)
    /\ pc' = pc \cup {"caller"}
    /\ UNCHANGED <<env, request, roleInfo, httpResp, proxyResp, encodeErr, conns>>

NextCaller == SetHeader \/ ExtractRoleInfo \/ ExtractCallerInfo

SpecCaller == InitCaller /\ [][NextCaller]_vars

----------------------------------------------------------------------------
(* Concurrent requests: net/http runs each handler call in its own          *)
(* goroutine.  A handler first builds its CallerInfo and then writes its    *)
(* response; the calls interleave between the two steps.                    *)

\* mux.ServeHTTP: the handler registered for the path, applied to the request
ServeHTTP(r, c, now, err) ==
    IF ServeMux(r.path) = "handleHealth" THEN handleHealth(r, c, now, err)
    ELSE IF ServeMux(r.path) = "handleData" THEN handleData(r, c, err)
    ELSE handleRoot(r, c, err)

\* CallerSlot with one CallerInfo shared by all calls (a package-level value)
CallerSlot_Shared(i) == 1

\* caller := &CallerInfo{}: the call serving request i allocates its own
\* CallerInfo, held in a local variable of that call
CallerSlot(i) == i

\* the locals of one handler call: at is its position
Conn(r) == [request |-> r, caller |-> NoCaller, resp |-> NoResponse, at |-> "start"]

ConcRequests ==
    { Request("GET", "/", NoHeaders, <<>>),
      Request("GET", "/data",
              [NoHeaders EXCEPT !["Host"] = HostB, !["X-Amz-Security-Token"] = Token101],
              <<>>),
      Request("POST", "/data",
              [NoHeaders EXCEPT !["Authorization"] = "Bearer sometoken1234567890",
                                !["X-Request-Id"] = "req-1"],
              ObjA1),
      Request("POST", "/data", [NoHeaders EXCEPT !["Host"] = HostA], <<BAD>>),
      Request("DELETE", "/data", [NoHeaders EXCEPT !["X-Stage"] = "prod"], <<>>),
      Request("GET", "/health",
              [NoHeaders EXCEPT !["X-Amz-Security-Token"] = "abc",
                                !["Authorization"] = "x/assumed-role/ops-role/bob"],
              <<>>) }

InitConc ==
    /\ env \in {"", "arn:aws:iam::123456789012:role/exec-role"}
    /\ request = Request("GET", "/", NoHeaders, <<>>)
    /\ roleInfo = NoRole
    /\ caller = NoCaller
    /\ httpResp = NoResponse
    /\ proxyResp = NoResponse
    /\ pc = {}
    /\ encodeErr = FALSE
    /\ conns \in [1..MaxRequests -> {Conn(r) : r \in ConcRequests}]

\* caller := extractCallerInfo(r)
Infer(i) ==
    /\ conns[i].at = "start"
    /\ conns' = [conns EXCEPT
                    ![CallerSlot(i)].caller =
                        extractCallerInfo(conns[i].request.headers, env),
                    ![i].at = "inferred"]
    /\ UNCHANGED <<env, request, roleInfo, caller, httpResp, proxyResp, pc, encodeErr>>

\* the rest of the handler: the response built with caller and written
Respond(i) ==
    /\ conns[i].at = "inferred"
    /\ \E now \in Timestamps :
          conns' = [conns EXCEPT
                      ![i].resp = Written(conns[CallerSlot(i)].caller,
                                          ServeHTTP(conns[i].request,
                                                    conns[CallerSlot(i)].caller,
                                                    now, encodeErr)),
                      ![i].at = "done"]
    /\ UNCHANGED <<env, request, roleInfo, caller, httpResp, proxyResp, pc, encodeErr>>

NextConc == (\E i \in DOMAIN conns : Infer(i)) \/ (\E i \in DOMAIN conns : Respond(i))

SpecConc == InitConc /\ [][NextConc]_vars

----------------------------------------------------------------------------
(* Properties of the dispatchers (checked under Spec) *)

HttpDone  == "http" \in pc
ProxyDone == "proxy" \in pc

IsData == request.path = "/data"

\* the "message" member of a response body
MessageOf(resp) == Field(resp.body, "message").val.str

\* the value the "data" member of a response body denotes
DataOf(resp) == Store(Field(resp.body, "data").val, FALSE)

\* the request body is one valid JSON document, an object
ValidObject(body) == Valid(body) /\ ParseValue(body, 1).val.kind = "object"

\* the value of a binary numeral
RECURSIVE BinValue(_)
BinValue(b) ==
    IF b = "" THEN 0
    ELSE 2 * BinValue(SubSeq(b, 1, Len(b) - 1))
         + (IF SubSeq(b, Len(b), Len(b)) = "1" THEN 1 ELSE 0)

EchoedAs(resp, data) ==
    /\ resp.status = 201
    /\ data.present
    /\ Store(data.val, FALSE) = ValueOf(request.body)

Echoes(resp) == EchoedAs(resp, Field(resp.body, "data"))

\* C1: POST /data with a body that is a valid JSON object B is answered 201
\* with a "data" member equal to B (same keys, same values), by both handlers
C1_PostEchoesBody ==
    (IsData /\ request.method = "POST" /\ ValidObject(request.body)) =>
        /\ HttpDone => Echoes(httpResp)
        /\ ProxyDone => Echoes(proxyResp)

\* C2: POST /data with a body that is not, as a whole, a valid JSON document
\* is answered 400 by handleData and by the proxy-event handler
C2_InvalidBodyRejected ==
    (IsData /\ request.method = "POST" /\ ~Valid(request.body)) =>
        /\ HttpDone => httpResp.status = 400
        /\ ProxyDone => proxyResp.status = 400

NotFound(resp) == resp.status = 404 /\ MessageOf(resp) = "Endpoint not found"

\* C3: a request whose path is not exactly "/", "/health" or "/data" is
\* answered 404 "Endpoint not found", whatever the method
C3_UnknownPathNotFound ==
    request.path \notin {"/", "/health", "/data"} =>
        /\ HttpDone => NotFound(httpResp)
        /\ ProxyDone => NotFound(proxyResp)

NotAllowed(resp) ==
    /\ resp.status = 405
    /\ MessageOf(resp) = "Method " \o request.method \o " not allowed"

\* C4 as stated: every method but GET and POST on /data, OPTIONS included, is
\* answered 405 "Method X not allowed" by both handlers
C4_Original ==
    (IsData /\ request.method \notin {"GET", "POST"}) =>
        /\ HttpDone => NotAllowed(httpResp)
        /\ ProxyDone => NotAllowed(proxyResp)

\* C4: every method but GET and POST on /data is answered 405 "Method X not
\* allowed" with X the request's method, except that the proxy-event handler
\* answers OPTIONS before routing (200, empty body)
C4_MethodNotAllowed ==
    (IsData /\ request.method \notin {"GET", "POST"}) =>
        /\ HttpDone => NotAllowed(httpResp)
        /\ (ProxyDone /\ request.method # "OPTIONS") => NotAllowed(proxyResp)
        /\ (ProxyDone /\ request.method = "OPTIONS") =>
               (proxyResp.status = 200 /\ proxyResp.body = <<>>)

C4_Witness ==
    /\ IsData /\ request.method = "DELETE"
    /\ HttpDone /\ ProxyDone
    /\ httpResp.status = 405 /\ proxyResp.status = 405
    /\ MessageOf(proxyResp) = "Method DELETE not allowed"

SampleItems == JArr(<<JStr("item1"), JStr("item2"), JStr("item3")>>)

SampleIs(d) ==
    /\ d.kind = "object"
    /\ d.keys = <<"count", "items">>
    /\ d.items[2] = SampleItems
    /\ d.items[1].kind = "num"
    /\ BinValue(d.items[1].str) = 3
    /\ BinValue(d.items[1].str) = Len(d.items[2].items)

Sample(resp) ==
    /\ resp.status = 200
    /\ Field(resp.body, "data").present
    /\ SampleIs(DataOf(resp))

\* C5: GET /data is answered 200 with data.items = [item1, item2, item3] and
\* data.count = 3 = the number of items, for every header set and body
C5_GetDataFixed ==
    (IsData /\ request.method = "GET") =>
        /\ HttpDone => Sample(httpResp)
        /\ ProxyDone => Sample(proxyResp)

C5_Witness ==
    /\ IsData /\ request.method = "GET"
    /\ HttpDone /\ ProxyDone
    /\ request.headers["X-Amz-Security-Token"] # ""
    /\ request.body # <<>>
    /\ caller.RoleName # ""
    /\ httpResp.status = 200 /\ proxyResp.status = 200

----------------------------------------------------------------------------
(* Properties of the inferencer (checked under SpecCaller) *)

CallerDone == "caller" \in pc
RoleDone   == "role" \in pc

HostOf  == request.headers["Host"]
TokenOf == request.headers["X-Amz-Security-Token"]
AuthOf  == request.headers["Authorization"]

\* C6: extractRoleInfo and extractCallerInfo return without a panic (no
\* slice or index out of range) for every header set and environment ARN
C6_NeverPanics == ~roleInfo.panic /\ ~caller.panic

C6_Witness ==
    /\ CallerDone /\ RoleDone
    /\ TokenOf = Token101
    /\ AuthOf = "short"
    /\ roleInfo.sessionName = "session-uvwxyz0123"
    /\ caller.SessionName = "session-uvwxyz0123"

IsRestricted(c) ==
    /\ c.RoleName = "aws-lambda-rest-iam-api-api-b-restricted-role"
    /\ c.UserID = "Role: aws-lambda-rest-iam-api-api-b-restricted-role"

\* C7 as stated: every header set whose Host contains "cqst45pam7" and that
\* has a security token yields userArn containing "API B" and the restricted
\* role as roleName and userId
C7_Original ==
    (CallerDone /\ Contains(HostOf, "cqst45pam7") /\ TokenOf # "") =>
        (Contains(caller.UserARN, "API B") /\ IsRestricted(caller))

\* C7: every header set whose Host contains "cqst45pam7" and not "7pxbysogui"
\* and that has a security token yields userArn containing "API B" and the
\* restricted role as roleName and userId, whatever extractRoleInfo parsed
C7_RestrictedOverride ==
    (CallerDone /\ Contains(HostOf, "cqst45pam7") /\ ~Contains(HostOf, "7pxbysogui")
       /\ TokenOf # "") =>
        (Contains(caller.UserARN, "API B") /\ IsRestricted(caller))

C7_Witness ==
    /\ CallerDone /\ RoleDone
    /\ HostOf = HostB /\ TokenOf # ""
    /\ roleInfo.roleName = "ops-role"
    /\ IsRestricted(caller)

\* C8: every descriptor whose userArn is "API B (Restricted Access)" has the
\* restricted role as roleName and userId, whichever other headers (security
\* token, Authorization) are present
C8_OverrideUnconditional ==
    (CallerDone /\ caller.UserARN = "API B (Restricted Access)") => IsRestricted(caller)

\* C9: a request without any header yields userArn = "Unauthenticated Request"
\* and every other field empty, also when the environment ARN is set
C9_NoHeaders ==
    (CallerDone /\ \A n \in HeaderNames : request.headers[n] = "") =>
        /\ caller.UserARN = "Unauthenticated Request"
        /\ caller.UserID = "" /\ caller.AccountID = "" /\ caller.PrincipalID = ""
        /\ caller.RoleName = "" /\ caller.SessionName = ""

C9_Witness ==
    /\ CallerDone
    /\ \A n \in HeaderNames : request.headers[n] = ""
    /\ env = "arn:aws:iam::123456789012:role/exec-role"
    /\ caller.UserARN = "Unauthenticated Request"

\* C10 as stated: with an Authorization header and no security token, userId
\* is a prefix of the header value of at most 20 characters followed by "..."
C10_Original ==
    (CallerDone /\ AuthOf # "" /\ TokenOf = "") =>
        \E k \in 0..20 :
            k <= Len(AuthOf) /\ caller.UserID = SubSeq(AuthOf, 1, k) \o "..."

\* C10: with an Authorization header and no security token, userId is the
\* label "Auth: ", then the first min(20, length) characters of the header
\* value, then "..."
C10_AuthPrefix ==
    (CallerDone /\ AuthOf # "" /\ TokenOf = "") =>
        LET k == IF Len(AuthOf) < 20 THEN Len(AuthOf) ELSE 20
        IN  /\ Len(caller.UserID) = 6 + k + 3
            /\ SubSeq(caller.UserID, 1, 6) = "Auth: "
            /\ SubSeq(caller.UserID, 7, 6 + k) = SubSeq(AuthOf, 1, k)
            /\ SubSeq(caller.UserID, 7 + k, 9 + k) = "..."

C10_Witness ==
    /\ CallerDone
    /\ AuthOf = "Bearer sometoken1234567890" /\ TokenOf = ""
    /\ caller.UserID = "Auth: Bearer sometoken1234..."

----------------------------------------------------------------------------
(* Properties of the responses (checked under Spec and SpecFault) *)

GenericError(resp) == resp.status = 500 /\ resp.body \in {InternalError, ErrorText}

\* C12: whenever JSON encoding of the response fails the client receives
\* status 500 with the generic 'Internal server error' body, from
\* writeJSONResponse and from the proxy-event handler (which encodes nothing
\* for OPTIONS)
C12_EncodingFailure500 ==
    encodeErr =>
        /\ HttpDone => GenericError(httpResp)
        /\ (ProxyDone /\ request.method # "OPTIONS") => GenericError(proxyResp)

\* the value of a response header, "" when it is not set
HeaderOf(resp, name) ==
    IF \E i \in 1..Len(resp.headers) : resp.headers[i][1] = name
    THEN resp.headers[CHOOSE i \in 1..Len(resp.headers) : resp.headers[i][1] = name][2]
    ELSE ""

\* C13: every response of the proxy-event handler, whatever its status and
\* the one of OPTIONS included, carries Content-Type: application/json,
\* Access-Control-Allow-Origin: *, Access-Control-Allow-Methods and
\* Access-Control-Allow-Headers
C13_ProxyHeaders ==
    ProxyDone =>
        /\ proxyResp.status \in {200, 201, 400, 404, 405, 500}
        /\ HeaderOf(proxyResp, "Content-Type") = "application/json"
        /\ HeaderOf(proxyResp, "Access-Control-Allow-Origin") = "*"
        /\ HeaderOf(proxyResp, "Access-Control-Allow-Methods") # ""
        /\ HeaderOf(proxyResp, "Access-Control-Allow-Headers") # ""

C13_Witness ==
    /\ ProxyDone /\ encodeErr
    /\ proxyResp.status = 500
    /\ HeaderOf(proxyResp, "Access-Control-Allow-Origin") = "*"

\* C14: the proxy-event handler answers OPTIONS with 200 and an empty body
\* for every path and every request body, never with 400, 404 or 405
C14_OptionsShortCircuit ==
    (ProxyDone /\ request.method = "OPTIONS") =>
        /\ proxyResp.status = 200
        /\ proxyResp.status \notin {400, 404, 405}
        /\ Len(proxyResp.body) = 0

C14_Witness ==
    /\ ProxyDone /\ request.method = "OPTIONS"
    /\ request.path = "/unknown" /\ request.body = <<BAD>>
    /\ proxyResp.status = 200

\* a terminal status code
Terminal(resp) == resp.status \in {200, 201, 400, 404, 405, 500}

\* a response, once produced, is the response of the request for good
Once ==
    /\ HttpDone => httpResp' = httpResp
    /\ ProxyDone => proxyResp' = proxyResp

\* C16: every request is handled to completion exactly once: both handlers
\* terminate for every method, path, header set and body, the response has
\* one of the statuses 200, 201, 400, 404, 405, 500, the proxy-event handler
\* returns a nil error, and the response is produced once and never replaced
C16_HandledOnce ==
    /\ <>(HttpDone /\ ProxyDone)
    /\ [](HttpDone => Terminal(httpResp))
    /\ [](ProxyDone => (Terminal(proxyResp) /\ proxyResp.error = "nil"))
    /\ [][Once]_vars

C16_Witness ==
    /\ HttpDone /\ ProxyDone
    /\ request.method = "POST" /\ IsData /\ request.body = <<BAD>>
    /\ encodeErr
    /\ httpResp.status = 400 /\ proxyResp.status = 500
    /\ proxyResp.error = "nil"

----------------------------------------------------------------------------
(* Properties of concurrent requests (checked under SpecConc) *)

\* the responses request r can get when it is served alone, one for each
\* reading of the clock
Alone(r) ==
    {ServeHTTP(r, extractCallerInfo(r.headers, env), now, FALSE) : now \in Timestamps}

\* C15: in every interleaving the CallerInfo a call holds is the one built
\* from its own request, and the response to each request is the one it gets
\* when served alone (the /health timestamp aside): it depends only on that
\* request and on the environment
C15_NoSharedState ==
    \A i \in DOMAIN conns :
        /\ conns[i].at = "start" => conns[i].caller = NoCaller
        /\ conns[i].at # "start" =>
               conns[i].caller = extractCallerInfo(conns[i].request.headers, env)
        /\ conns[i].at = "done" => conns[i].resp \in Alone(conns[i].request)

C15_Witness ==
    /\ MaxRequests >= 2
    /\ conns[1].at = "inferred" /\ conns[2].at = "done"
    /\ conns[1].request # conns[2].request
    /\ conns[1].caller.RoleName = RestrictedRole
    /\ conns[2].caller.RoleName = ""
    /\ conns[2].resp.status = 201

----------------------------------------------------------------------------
(* Properties of the inferencer, continued (checked under SpecCaller) *)

ApiKeyOf == request.headers["X-Api-Key"]

HasA == Contains(HostOf, "7pxbysogui")
HasB == Contains(HostOf, "cqst45pam7")
HasC == Contains(HostOf, "vo9f4c6gj4")

\* C17: with a Host the label is API A, else API B, else API C by the first
\* fragment found in that order; without a fragment it is API C when an
\* X-API-Key header is present and "API Gateway: <host>" otherwise; without
\* a Host the API key is not consulted and the label is left unset (until
\* the unauthenticated fallback)
C17_GatewayLabel ==
    CallerDone =>
        /\ (HostOf # "" /\ HasA) => caller.UserARN = "API A (Open Access)"
        /\ (HostOf # "" /\ ~HasA /\ HasB) => caller.UserARN = "API B (Restricted Access)"
        /\ (HostOf # "" /\ ~HasA /\ ~HasB /\ HasC) => caller.UserARN = "API C (IAM + API Key)"
        /\ (HostOf # "" /\ ~HasA /\ ~HasB /\ ~HasC /\ ApiKeyOf # "") =>
               caller.UserARN = "API C (IAM + API Key)"
        /\ (HostOf # "" /\ ~HasA /\ ~HasB /\ ~HasC /\ ApiKeyOf = "") =>
               caller.UserARN = "API Gateway: " \o HostOf
        /\ (HostOf = "" /\ (TokenOf # "" \/ AuthOf # "")) => caller.UserARN = ""
        /\ (HostOf = "" /\ TokenOf = "" /\ AuthOf = "") =>
               caller.UserARN = "Unauthenticated Request"

C17_Witness ==
    /\ CallerDone
    /\ HostOf = HostBC /\ ApiKeyOf # ""
    /\ caller.UserARN = "API B (Restricted Access)"

\* a candidate value that ends the scan: longer than 10 characters, with
\* "role/" in it (every "assumed-role/" has one)
Matches(v) == Len(v) > 10 /\ Contains(v, "role/")

\* the first candidate header, in the order of the list, whose value matches
FirstMatch ==
    First({i \in 1..Len(RoleHeaders) : Matches(request.headers[RoleHeaders[i]])})

FirstValue == request.headers[RoleHeaders[FirstMatch]]

\* the number of characters of s after offset lo that come before the first
\* character of stops, or before the end of s
SegmentLen(s, lo, stops) ==
    First({k \in 0..(Len(s) - lo) :
              k = Len(s) - lo \/ SubSeq(s, lo + k + 1, lo + k + 1) \in stops})

Segment(s, lo, stops) == SubSeq(s, lo + 1, lo + SegmentLen(s, lo, stops))

\* the <role> and the <session> of a value with "assumed-role/<role>/<session>"
ArnRole(v) == Segment(v, Index(v, "assumed-role/") + 13, {"/"})
ArnSession(v) == Segment(v, Index(v, "assumed-role/") + 13 + Len(ArnRole(v)) + 1, {"/"})

HasArnForm(v) ==
    /\ Contains(v, "assumed-role/")
    /\ ArnRole(v) # ""
    /\ Index(v, "assumed-role/") + 13 + Len(ArnRole(v)) < Len(v)
    /\ ArnSession(v) # ""

\* C18: with no environment ARN, when the first candidate that matches holds
\* "assumed-role/<role>/<session>", extractRoleInfo returns roleName = <role>
\* and sessionName = <session>
C18_AssumedRoleArn ==
    (RoleDone /\ env = "" /\ FirstMatch # -1 /\ HasArnForm(FirstValue)) =>
        /\ roleInfo.roleName = ArnRole(FirstValue)
        /\ roleInfo.sessionName = ArnSession(FirstValue)

\* C19: with no environment ARN, when the first candidate that matches has
\* no "assumed-role" in it, roleName is the text after its first "role/" up
\* to the next "/", ",", ";" or space or to the end of the value, and
\* sessionName is empty: the earlier match wins over every later one
C19_RolePattern ==
    (RoleDone /\ env = "" /\ FirstMatch # -1 /\ ~Contains(FirstValue, "assumed-role")) =>
        /\ roleInfo.roleName =
               Segment(FirstValue, Index(FirstValue, "role/") + 5, {"/", ",", ";", " "})
        /\ roleInfo.sessionName = ""

C19_Witness ==
    /\ RoleDone /\ env = ""
    /\ AuthOf = "arn:aws:iam::123456789012:role/admin-role,extra"
    /\ request.headers["X-Amz-User-Agent"] = "aws-sdk-go/1.44 role/ua-role;v2"
    /\ request.headers["X-Amzn-RequestContext-Identity-Arn"] = "x/assumed-role/ctx-role/carol"
    /\ roleInfo.roleName = "admin-role"

\* the header set without the candidate headers of 10 characters or fewer
WithoutShort(headers) ==
    [n \in HeaderNames |->
        IF (\E i \in 1..Len(RoleHeaders) : RoleHeaders[i] = n) /\ Len(headers[n]) <= 10
        THEN ""
        ELSE headers[n]]

\* C20: a candidate header of 10 characters or fewer never contributes: the
\* result of extractRoleInfo is the one for the header set without it; a
\* value of 11 characters is examined
C20_ShortSkipped ==
    RoleDone =>
        /\ roleInfo = extractRoleInfo(WithoutShort(request.headers), env)
        /\ (env = "" /\ AuthOf = "role/admins") => roleInfo.roleName = "admins"
        /\ (env = "" /\ AuthOf = "role/admin") => roleInfo.roleName # "admin"

C20_Witness ==
    /\ RoleDone /\ env = ""
    /\ AuthOf = "role/admin"
    /\ request.headers["X-Amzn-RequestContext-Identity-Arn"] = "role/short"
    /\ request.headers["X-Amzn-RequestContext-Identity-UserArn"] # ""
    /\ roleInfo.roleName = "user-role"

\* the text of s after its last "/" (all of s when it has none)
LastSegment(s) ==
    CHOOSE seg \in {SubSeq(s, k + 1, Len(s)) : k \in 0..Len(s)} :
        /\ ~Contains(seg, "/")
        /\ (Len(seg) = Len(s) \/ SubSeq(s, Len(s) - Len(seg), Len(s) - Len(seg)) = "/")

\* C21 as stated: whenever the environment ARN is non-empty, the role name is
\* its last '/'-separated segment and the session name is empty
C21_Original ==
    (RoleDone /\ env # "") =>
        (roleInfo.roleName = LastSegment(env) /\ roleInfo.sessionName = "")

\* C21: whenever the environment ARN is non-empty and contains "role/", the
\* role name is its last '/'-separated segment and the session name is empty,
\* whatever the candidate headers and the security token are
C21_EnvRoleFirst ==
    (RoleDone /\ env # "" /\ Contains(env, "role/")) =>
        (roleInfo.roleName = LastSegment(env) /\ roleInfo.sessionName = "")

C21_Witness ==
    /\ RoleDone
    /\ env = "arn:aws:iam::123456789012:role/exec-role"
    /\ AuthOf = "x/assumed-role/ops-role/bob"
    /\ TokenOf = Token101
    /\ roleInfo.roleName = "exec-role" /\ roleInfo.sessionName = ""

\* neither the environment ARN nor a candidate header ends extractRoleInfo
NoEarlierMatch == ~(env # "" /\ Contains(env, "role/")) /\ FirstMatch = -1

\* C22 as stated: with no earlier match, a token that starts with "IQoJ"
\* gives roleName "STS-AssumedRole" and sessionName "session-" followed by
\* the characters at offsets 50..59 of the token; any other token gives both
\* empty
C22_Original ==
    (RoleDone /\ NoEarlierMatch) =>
        IF HasPrefix(TokenOf, "IQoJ")
        THEN /\ roleInfo.roleName = "STS-AssumedRole"
             /\ Len(TokenOf) >= 60
             /\ roleInfo.sessionName = "session-" \o SubSeq(TokenOf, 51, 60)
        ELSE roleInfo.roleName = "" /\ roleInfo.sessionName = ""

\* C22: with no earlier match, a token that starts with "IQoJ" gives roleName
\* "STS-AssumedRole", and sessionName "session-" followed by the characters
\* at offsets 50..59 when the token is longer than 100 characters, empty
\* when it is not; any other token gives both empty
C22_TokenRole ==
    (RoleDone /\ NoEarlierMatch) =>
        IF HasPrefix(TokenOf, "IQoJ")
        THEN /\ roleInfo.roleName = "STS-AssumedRole"
             /\ Len(TokenOf) > 100 =>
                    roleInfo.sessionName = "session-" \o SubSeq(TokenOf, 51, 60)
             /\ Len(TokenOf) <= 100 => roleInfo.sessionName = ""
        ELSE roleInfo.roleName = "" /\ roleInfo.sessionName = ""

C22_Witness ==
    /\ RoleDone /\ NoEarlierMatch
    /\ TokenOf = Token101x
    /\ AuthOf = "role/admin"
    /\ roleInfo.roleName = "STS-AssumedRole"
    /\ roleInfo.sessionName = "session-0000000000"

\* the first min(20, length) characters of s
Prefix20(s) == SubSeq(s, 1, IF Len(s) < 20 THEN Len(s) ELSE 20)

\* C23: in every descriptor built from a header set with a security token,
\* a non-empty roleName comes with userId = "Role: " + roleName (also after
\* the restricted-gateway overwrite) and an empty roleName with userId =
\* "Token: " + the first min(20, length) characters of the token + "..."
C23_UserIdOfRole ==
    (CallerDone /\ TokenOf # "") =>
        /\ caller.RoleName # "" => caller.UserID = "Role: " \o caller.RoleName
        /\ caller.RoleName = "" =>
               caller.UserID = "Token: " \o Prefix20(TokenOf) \o "..."

C23_Witness ==
    /\ CallerDone /\ RoleDone
    /\ TokenOf = TokenOther /\ HostOf = HostB
    /\ roleInfo.roleName = ""
    /\ caller.UserID = "Role: aws-lambda-rest-iam-api-api-b-restricted-role"

\* C24: userArn is "Unauthenticated Request" exactly when the header set has
\* no security token, no Authorization header and no Host header; in every
\* other case it is the gateway label derived from Host (unset without Host)
C24_Unauthenticated ==
    CallerDone =>
        /\ caller.UserARN = "Unauthenticated Request"
               <=> (TokenOf = "" /\ AuthOf = "" /\ HostOf = "")
        /\ ~(TokenOf = "" /\ AuthOf = "" /\ HostOf = "") =>
               caller.UserARN = GatewayLabel(HostOf, ApiKeyOf)

C24_Witness ==
    /\ CallerDone
    /\ HostOf = "" /\ TokenOf = "" /\ AuthOf # "" /\ ApiKeyOf # ""
    /\ caller.UserARN = ""

\* a and b differ at most in the characters after the first 20
SameHead(a, b) == Len(a) >= 20 /\ Len(b) >= 20 /\ Prefix20(a) = Prefix20(b)

\* a and b are both longer than 100 characters with the same characters at
\* offsets 50..59, or both of 100 characters or fewer
SameSlice(a, b) ==
    /\ (Len(a) > 100) = (Len(b) > 100)
    /\ Len(a) > 100 => SubSeq(a, 51, 60) = SubSeq(b, 51, 60)

\* the descriptor of the request with the value of header n replaced by v
CallerWith(n, v) == extractCallerInfo([request.headers EXCEPT ![n] = v], env)

\* C27 as stated: two header sets that differ only in the characters of the
\* security token after its first 20 (or, without a token, of Authorization
\* after its first 20) yield the same descriptor
C27_Original ==
    CallerDone =>
        /\ TokenOf # "" =>
               \A t \in HeaderValues("X-Amz-Security-Token") :
                   SameHead(t, TokenOf) => CallerWith("X-Amz-Security-Token", t) = caller
        /\ (TokenOf = "" /\ AuthOf # "") =>
               \A a \in HeaderValues("Authorization") :
                   SameHead(a, AuthOf) => CallerWith("Authorization", a) = caller

\* C27: two header sets that differ only in the characters of the security
\* token after its first 20, with tokens on the same side of 100 characters
\* and, when longer, with the same characters at offsets 50..59, yield the
\* same descriptor; so do two header sets without a token that differ only in
\* the characters of Authorization after its first 20
C27_BoundedPrefix ==
    CallerDone =>
        /\ TokenOf # "" =>
               \A t \in HeaderValues("X-Amz-Security-Token") :
                   (SameHead(t, TokenOf) /\ SameSlice(t, TokenOf)) =>
                       CallerWith("X-Amz-Security-Token", t) = caller
        /\ (TokenOf = "" /\ AuthOf # "") =>
               \A a \in HeaderValues("Authorization") :
                   SameHead(a, AuthOf) => CallerWith("Authorization", a) = caller

C27_Witness ==
    /\ CallerDone
    /\ TokenOf = TokenOther
    /\ caller.UserID = "Token: FwoGABCDEFGHIJKLMNOP..."
    /\ CallerWith("X-Amz-Security-Token", TokenOtherx) = caller

\* C28: a non-empty sessionName comes with a non-empty roleName, and both
\* are empty when the header set has no security token
C28_SessionImpliesRole ==
    CallerDone =>
        /\ caller.SessionName # "" => caller.RoleName # ""
        /\ TokenOf = "" => (caller.RoleName = "" /\ caller.SessionName = "")

\* C29: a descriptor carries the restricted-role constant (no header or
\* environment value holds it, so only the overwrite writes it) only when the
\* Host header contains "cqst45pam7"
C29_OverwriteOnlyRestricted ==
    (CallerDone /\ (caller.RoleName = RestrictedRole
                      \/ caller.UserID = "Role: " \o RestrictedRole)) =>
        Contains(HostOf, "cqst45pam7")

\* C30: with a security token that starts with "IQoJ" the role name is never
\* empty: it is "STS-AssumedRole" unless the environment ARN or a candidate
\* header yields a non-empty role name
C30_TokenRoleFallback ==
    (RoleDone /\ HasPrefix(TokenOf, "IQoJ")) =>
        /\ roleInfo.roleName # ""
        /\ NoEarlierMatch => roleInfo.roleName = "STS-AssumedRole"

----------------------------------------------------------------------------
(* Properties of the dispatchers, continued (checked under Spec) *)

IsPost == IsData /\ request.method = "POST"

InvalidJSON(resp) == MessageOf(resp) = "Invalid JSON in request body"

\* C25 as stated: every 400 response to POST /data follows a failure to parse
\* the body as a JSON object and carries "Invalid JSON in request body"
C25_Original ==
    IsPost =>
        /\ (HttpDone /\ httpResp.status = 400) =>
               (InvalidJSON(httpResp) /\ ~ValidObject(request.body))
        /\ (ProxyDone /\ proxyResp.status = 400) =>
               (InvalidJSON(proxyResp) /\ ~ValidObject(request.body))

\* C25: every 400 response to POST /data follows a failure to parse the body
\* as a JSON object; it carries "Invalid JSON in request body", except that
\* the proxy-event handler answers an empty body with "No data provided";
\* POST /data is answered 201 or 400
C25_InvalidJSONMessage ==
    IsPost =>
        /\ HttpDone => httpResp.status \in {201, 400}
        /\ ProxyDone => proxyResp.status \in {201, 400}
        /\ (HttpDone /\ httpResp.status = 400) =>
               (InvalidJSON(httpResp) /\ ~ValidObject(request.body))
        /\ (ProxyDone /\ proxyResp.status = 400 /\ request.body # <<>>) =>
               (InvalidJSON(proxyResp) /\ ~ValidObject(request.body))
        /\ (ProxyDone /\ request.body = <<>>) =>
               (proxyResp.status = 400 /\ MessageOf(proxyResp) = "No data provided")

C25_Witness ==
    /\ IsPost /\ HttpDone /\ ProxyDone
    /\ request.body = <<LBRACK, Num("1"), RBRACK>>
    /\ httpResp.status = 400 /\ proxyResp.status = 400
    /\ InvalidJSON(httpResp) /\ InvalidJSON(proxyResp)

\* C26: the net/http dispatcher and the proxy-event handler answer every
\* request with the same status code and the same "message" field
C26_SameStatusAndMessage ==
    (HttpDone /\ ProxyDone) =>
        /\ httpResp.status = proxyResp.status
        /\ Field(httpResp.body, "message") = Field(proxyResp.body, "message")

====
